---- MODULE Spec2Model ----
(***************************************************************************)
(* Record / Replay HTTP round trippers of package recorder                 *)
(* (src/recorder/recorder.go).                                             *)
(*                                                                         *)
(* A request or response is an object with a header map and a body that is *)
(* a one-shot stream.  Objects are held by reference, so the model keeps   *)
(* header maps and body streams in cells and the objects hold cell         *)
(* indices: req.Clone copies the header map into a new cell and shares the *)
(* body cell.  Wire bytes are sequences of tokens: start line, one token   *)
(* per header (sorted), an empty token, then the body.                     *)
(***************************************************************************)
EXTENDS Integers, Sequences, FiniteSets, TLC

\* ------------------------------------------------------------------ bounds
MaxRecords == 2      \* Record calls in one behaviour
MaxExternal == 1     \* files put into the store from outside in one behaviour
HashSpace == 7       \* number of distinct 8-character identifiers

\* ------------------------------------------------------------- input sets
Paths == {"/status"}
HeaderOrder == <<"Authorization", "Token">>
ReqHeaderSets == {{}, {"Authorization"}}
Broken == "!read-error"                  \* a body whose Read returns an error
ReqBodies == {"", "x", Broken}
Requests == [path : Paths, hdr : ReqHeaderSets, body : ReqBodies]
Responses ==
    {[status |-> "200", hdr |-> {"Token"}, body |-> "ok"],
     [status |-> "500", hdr |-> {"Token"}, body |-> ""],
     [status |-> "200", hdr |-> {}, body |-> Broken]}
RequestFilters == {"nil", "delAuthorization", "setBody", "readBody"}
ResponseFilters == {"nil", "delToken"}
Prefixes == {"login-"}

\* ------------------------------------------------------------ wire format
TokCode(t) ==
    CASE t = "" -> 0
      [] t = "GET" -> 1
      [] t = "/status" -> 2
      [] t = "/health" -> 3
      [] t = "Authorization" -> 4
      [] t = "Token" -> 5
      [] t = "x" -> 6
      [] t = "redacted" -> 8
      [] t = "200" -> 9
      [] t = "500" -> 10
      [] t = "ok" -> 11
      [] OTHER -> 12

\* Header.Write emits the keys in sorted order.
HeaderLines(hdr) == SelectSeq(HeaderOrder, LAMBDA h : h \in hdr)

BodyBytes(body) == IF body = "" THEN <<>> ELSE <<body>>

\* httputil.DumpRequest(req, true) for a body that was read without error.
DumpRequestBytes(path, hdr, body) ==
    <<"GET", path>> \o HeaderLines(hdr) \o <<"">> \o BodyBytes(body)

\* httputil.DumpResponse(res, false): the body is left out.
DumpResponseBytesNoBody(status, hdr, body) ==
    <<status>> \o HeaderLines(hdr) \o <<"">>

\* httputil.DumpResponse(res, true) for a body that was read without error.
DumpResponseBytes(status, hdr, body) ==
    <<status>> \o HeaderLines(hdr) \o <<"">> \o BodyBytes(body)

\* Index of the first empty token (the blank line) of b, 0 when there is none.
BlankAt(b) ==
    IF \E i \in 1..Len(b) : b[i] = ""
    THEN CHOOSE i \in 1..Len(b) : b[i] = "" /\ \A j \in 1..(i - 1) : b[j] # ""
    ELSE 0

\* http.ReadResponse: status line, headers up to the blank line, then the body.
\* ok is FALSE for bytes that are no complete response head.
ReadResponse(b) ==
    LET k == BlankAt(b) IN
    IF k < 2
    THEN [ok |-> FALSE, status |-> "", hdr |-> {}, body |-> ""]
    ELSE [ok |-> TRUE,
          status |-> b[1],
          hdr |-> {b[i] : i \in 2..(k - 1)},
          body |-> IF k < Len(b) THEN b[k + 1] ELSE ""]

\* The header names of a dumped request (tokens between the request line and
\* the blank line).
RequestFixtureHeaders(b) == {b[i] : i \in 3..(BlankAt(b) - 1)}

\* ------------------------------------------------------------ fingerprint
RECURSIVE HashBytes(_)
HashBytes(b) ==
    IF b = <<>> THEN 1
    ELSE (HashBytes(SubSeq(b, 1, Len(b) - 1)) * 3 + TokCode(b[Len(b)])) % HashSpace

NameOf(prefix, id, suffix) == [prefix |-> prefix, id |-> id, suffix |-> suffix]

\* Names cut from different parts of the digest.
buildNameSplit(b) ==
    [reqname |-> NameOf("", HashBytes(b), ".req.txt"),
     resname |-> NameOf("", (HashBytes(b) + 1) % HashSpace, ".res.txt")]

buildName(b) ==
    [reqname |-> NameOf("", HashBytes(b), ".req.txt"),
     resname |-> NameOf("", HashBytes(b), ".res.txt")]

\* A glob that forgets the suffix: "*" + identifier + "*".
GlobAnySuffix(files, name) == {n \in DOMAIN files : n.id = name.id}

\* fs.Glob(fsys, "*" + name): the names of the store that end with name.
Glob(files, name) ==
    {n \in DOMAIN files : n.id = name.id /\ n.suffix = name.suffix}

\* ------------------------------------------------------------------ state
VARIABLES
    dir,       \* basepath: "absent", "present" or "blocked" (cannot be created)
    files,     \* the fixture store: name -> [data, isDir]
    rec,       \* per goroutine: the Record call in flight or last returned
    rep,       \* the client's Replay call: its request object and what it returned
    rtCalls,   \* per goroutine: invocations of the underlying transport by its call
    hist,      \* history: the last exchange recorded per identifier
    nrec,      \* Record calls started
    next,      \* files put into the store from outside
    cl,        \* the CmdLine under construction and the last lookup made on it
    engine,    \* the template Engine
    gor,       \* per goroutine: its Load or Render call on the Engine
    ncalls     \* Load and Render calls started

recVars == <<dir, files, rec, rep, rtCalls, hist, nrec, next>>
cmdVars == <<cl>>
tplVars == <<engine, gor, ncalls>>
vars == <<dir, files, rec, rep, rtCalls, hist, nrec, next, cl, engine, gor, ncalls>>

Procs == {1, 2}
SeqProcs == {1}

NoName == NameOf("", 0, "")
NoReq == [path |-> "", hdr |-> 0, body |-> 0]
NoFilters == [req |-> "nil", res |-> "nil"]

\* The locals of one call of the function Record returns.  hcell and bcell
\* hold the header maps and body streams the request objects point to;
\* hcell[1] is the caller's header map, hcell[2] the clone's; bcell[1] is the
\* caller's body, bcell[2] a body a filter supplies, bcell[3] the copy
\* DumpRequest leaves behind.  History fields: orig (the request as the
\* caller passed it), sent (what the transport was handed), reqb (the bytes
\* of the request dump), files0 (the store when the call began), at (the
\* step that returned the error), trace (the steps taken).
IdleCall ==
    [pc |-> "idle", f |-> NoFilters,
     orig |-> [path |-> "", hdr |-> {}, body |-> ""],
     req |-> NoReq, dumpReq |-> NoReq,
     hcell |-> <<{}, {}>>, bcell |-> <<"", "", "">>,
     b |-> <<>>, reqname |-> NoName, resname |-> NoName,
     sent |-> <<>>, got |-> <<>>, live |-> <<>>, res |-> <<>>, err |-> "",
     wrap |-> "", at |-> "", reqb |-> <<>>, files0 |-> <<>>, trace |-> <<>>]

NoReplay ==
    [req |-> [path |-> "", hdr |-> {}, body |-> ""], res |-> <<>>,
     err |-> "", wrap |-> "", n |-> 0]

File(data) == [data |-> data, isDir |-> FALSE]
Directory == [data |-> <<>>, isDir |-> TRUE]

\* No command line read yet.
NoCmdLine ==
    [pc |-> "off", Raw |-> <<>>, AsMap |-> <<>>, flag |-> <<>>,
     value |-> <<>>, present |-> FALSE, contains |-> FALSE, bool |-> FALSE]

\* The Engine as NewFileSystem returns it, over file system fsys; its
\* Templates field is nil, <<>>; <<S>> points to a set of the templates S.
NewFileSystem(fsys) ==
    [fileSystem |-> fsys, loaded |-> FALSE, reload |-> FALSE, mutex |-> 0,
     Templates |-> <<>>]

Goroutines == {1, 2}

IdleTask ==
    [pc |-> "idle", op |-> "", template |-> "", i |-> 0, err |-> "",
     locked |-> FALSE, during |-> 0, parsed |-> FALSE]

\* The packages a run does not use: nothing is called on them.
CmdLineUnused == cl = NoCmdLine
TemplateUnused ==
    /\ engine = NewFileSystem(<<>>)
    /\ gor = [g \in Goroutines |-> IdleTask]
    /\ ncalls = 0

Init ==
    /\ dir \in {"absent", "present", "blocked"}
    /\ files = <<>>
    /\ rec = [p \in Procs |-> IdleCall]
    /\ rep = NoReplay
    /\ rtCalls = [p \in Procs |-> 0]
    /\ hist = [last |-> <<>>, allOk |-> TRUE]
    /\ nrec = 0
    /\ next = 0
    /\ CmdLineUnused
    /\ TemplateUnused

\* ------------------------------------------------------------- file system
\* os.MkdirAll(basepath, 0o755): creates the directory unless it cannot.
MkdirAll(d) == IF d = "absent" THEN "present" ELSE d

\* OpenFile(name, O_WRONLY|O_CREATE|O_TRUNC): can it succeed in this store.
CanOpen(d, fs, name) ==
    /\ d = "present"
    /\ name \in DOMAIN fs => ~fs[name].isDir

\* OpenFile without O_TRUNC: an existing file keeps its content.
TruncateKeep(fs, name) == IF name \in DOMAIN fs THEN fs ELSE (name :> File(<<>>)) @@ fs

\* OpenFile that first sets an existing file aside under a prefixed name.
TruncateBackup(fs, name) ==
    IF name \in DOMAIN fs
    THEN (name :> File(<<>>)) @@ (NameOf("login-", name.id, name.suffix) :> fs[name]) @@ fs
    ELSE (name :> File(<<>>)) @@ fs

Truncate(fs, name) == (name :> File(<<>>)) @@ fs

\* f.Write(data) on a file opened at offset 0: overwrites the first Len(data)
\* tokens and keeps what lies behind them.
WriteAt0(fs, name, data) ==
    LET old == IF name \in DOMAIN fs THEN fs[name].data ELSE <<>>
    IN (name :> File(data \o SubSeq(old, Len(data) + 1, Len(old)))) @@ fs

\* ------------------------------------------------------------ Record steps
\* req.Clone with every field sharing the caller's cells.
CloneShallow(req) == req

\* req.Clone(context.Background()): a new object with a deep copy of the
\* header map (cell 2) and the same Body; dumpReq.Body = req.Body.
Clone(req) == [req EXCEPT !.hdr = 2]

\* f.RequestFilter(dumpReq): what the filter does to the clone and the cells.
ApplyRequestFilter(f, c) ==
    CASE f = "delAuthorization" ->
           [c EXCEPT !.hcell[c.dumpReq.hdr] = @ \ {"Authorization"}]
      [] f = "setBody" ->
           [c EXCEPT !.dumpReq.body = 2, !.bcell[2] = "redacted"]
      [] f = "readBody" ->
           [c EXCEPT !.bcell[c.dumpReq.body] = IF @ = Broken THEN @ ELSE ""]
      [] OTHER -> c

\* f.ResponseFilter(res): mutates the response object it is given.
ApplyResponseFilter(f, r) ==
    CASE f = "delToken" -> [r EXCEPT !.hdr = @ \ {"Token"}]
      [] OTHER -> r

\* The deferred wrapper of Record: a non-nil error is wrapped.
RecordWrap(err) == IF err # "" THEN "problem while recording transport" ELSE ""

Return(c, res, err) ==
    [c EXCEPT !.pc = "done", !.res = res, !.err = err, !.wrap = RecordWrap(err),
              !.at = IF err # "" THEN c.pc ELSE ""]

\* History: when call c returns, the exchange it recorded becomes the last
\* one of its identifier; a call that returns an error is remembered.
Note(h, c) ==
    IF c.pc # "done" THEN h
    ELSE IF c.err # "" THEN [h EXCEPT !.allOk = FALSE]
    ELSE LET id == c.resname.id
             k == IF id \in DOMAIN h.last THEN h.last[id].n ELSE 0
         IN [h EXCEPT !.last = (id :> [req |-> c.reqb, res |-> c.b, n |-> k + 1]) @@ @]

Log(c, e) == [c EXCEPT !.trace = Append(@, e)]

\* Lines 44-54: the call starts, MkdirAll (its error discarded), the clone.
RecBegin(p, r, f) ==
    /\ rec[p].pc \in {"idle", "done"}
    /\ rep.n = 0
    /\ nrec < MaxRecords
    /\ nrec' = nrec + 1
    /\ dir' = MkdirAll(dir)
    /\ LET req == [path |-> r.path, hdr |-> 1, body |-> 1] IN
       rec' = [rec EXCEPT ![p] =
                 [IdleCall EXCEPT !.pc = "filterReq", !.f = f, !.orig = r,
                                  !.req = req, !.dumpReq = Clone(req),
                                  !.hcell = <<r.hdr, r.hdr>>,
                                  !.bcell = <<r.body, "", "">>,
                                  !.files0 = files,
                                  !.trace = <<"mkdir">>]]
    /\ rtCalls' = [rtCalls EXCEPT ![p] = 0]
    /\ UNCHANGED <<files, rep, hist, next, cmdVars, tplVars>>

\* Lines 56-58.
RecRequestFilter(p) ==
    /\ rec[p].pc = "filterReq"
    /\ rec' = [rec EXCEPT ![p] =
                 IF rec[p].f.req # "nil"
                 THEN [Log(ApplyRequestFilter(rec[p].f.req, rec[p]), "requestFilter")
                         EXCEPT !.pc = "dumpReq"]
                 ELSE [rec[p] EXCEPT !.pc = "dumpReq"]]
    /\ hist' = Note(hist, rec'[p])
    /\ UNCHANGED <<dir, files, rep, rtCalls, nrec, next, cmdVars, tplVars>>

\* DumpRequest's save/restore of the body it read: the drained stream is
\* replaced by a fresh reader over the bytes read (cell 3).
DrainBody(c) ==
    [c EXCEPT !.bcell[c.dumpReq.body] = "", !.bcell[3] = c.bcell[c.dumpReq.body],
              !.dumpReq.body = 3]

\* Line 66, "restore body".
RestoreBody(c) == [c EXCEPT !.req.body = c.dumpReq.body]

\* Lines 60-68: DumpRequest(dumpReq, true), restore body, buildName.
RecDumpRequest(p) ==
    /\ rec[p].pc = "dumpReq"
    /\ LET c == rec[p]
           body == c.bcell[c.dumpReq.body]
           b == DumpRequestBytes(c.dumpReq.path, c.hcell[c.dumpReq.hdr], body)
       IN rec' = [rec EXCEPT ![p] =
                    IF body = Broken
                    THEN Return(c, <<>>, "serialize")
                    ELSE [RestoreBody(DrainBody(c)) EXCEPT
                            !.pc = "openReq", !.b = b, !.reqb = b,
                            !.reqname = buildName(b).reqname,
                            !.resname = buildName(b).resname]]
    /\ hist' = Note(hist, rec'[p])
    /\ UNCHANGED <<dir, files, rep, rtCalls, nrec, next, cmdVars, tplVars>>

\* An open whose error is discarded, as MkdirAll's is.
OpenStepIgnore(p, at, name, then, io) ==
    /\ rec[p].pc = at
    /\ files' = IF CanOpen(dir, files, name) /\ io THEN Truncate(files, name) ELSE files
    /\ rec' = [rec EXCEPT ![p] = [Log(rec[p], at) EXCEPT !.pc = then]]
    /\ hist' = Note(hist, rec'[p])
    /\ UNCHANGED <<dir, rep, rtCalls, nrec, next, cmdVars, tplVars>>

\* os.WriteFile, first half: open with O_CREATE|O_TRUNC.  io is the
\* environment's verdict on an open that the store itself would allow; the
\* write to the open file is taken to succeed.
OpenStep(p, at, name, then, io) ==
    /\ rec[p].pc = at
    /\ IF CanOpen(dir, files, name) /\ io
       THEN /\ files' = Truncate(files, name)
            /\ rec' = [rec EXCEPT ![p] = [Log(rec[p], at) EXCEPT !.pc = then]]
       ELSE /\ files' = files
            /\ rec' = [rec EXCEPT ![p] = Return(rec[p], <<>>, "io")]
    /\ hist' = Note(hist, rec'[p])
    /\ UNCHANGED <<dir, rep, rtCalls, nrec, next, cmdVars, tplVars>>

\* An open of the request fixture that names the response fixture.
RecOpenReqWrongName(p, io) == OpenStep(p, "openReq", rec[p].resname, "writeReq", io)

\* Lines 69-72, open.
RecOpenReq(p, io) == OpenStep(p, "openReq", rec[p].reqname, "writeReq", io)

\* Lines 69-72, write.
RecWriteReq(p) ==
    /\ rec[p].pc = "writeReq"
    /\ files' = WriteAt0(files, rec[p].reqname, rec[p].b)
    /\ rec' = [rec EXCEPT ![p] = [Log(rec[p], "writeReq") EXCEPT !.pc = "roundTrip"]]
    /\ hist' = Note(hist, rec'[p])
    /\ UNCHANGED <<dir, rep, rtCalls, nrec, next, cmdVars, tplVars>>
\* What the underlying transport may return.  Record passes on what it gets;
\* an http.RoundTripper returns a response and no error, or an error and no
\* response.
RoundTripOutcomes ==
    {[res |-> <<s>>, err |-> ""] : s \in Responses}
        \cup {[res |-> <<>>, err |-> "transport"]}

\* What rt.RoundTrip(req) is handed: the caller's object as it is now.
SentRequest(c) ==
    [path |-> c.req.path, hdr |-> c.hcell[c.req.hdr], body |-> c.bcell[c.req.body]]

\* A transport error answered by a second attempt.
RecRoundTripRetry(p, o) ==
    /\ rec[p].pc = "roundTrip"
    /\ rtCalls' = [rtCalls EXCEPT ![p] = @ + (IF o.err # "" THEN 2 ELSE 1)]
    /\ LET c == [Log(rec[p], "roundTrip") EXCEPT
                   !.sent = <<SentRequest(rec[p])>>,
                   !.bcell[rec[p].req.body] = "",
                   !.got = o.res,
                   !.live = o.res]
       IN rec' = [rec EXCEPT ![p] =
                    IF o.err # "" THEN Return(c, o.res, o.err)
                    ELSE [c EXCEPT !.pc = "filterRes"]]
    /\ hist' = Note(hist, rec'[p])
    /\ UNCHANGED <<dir, files, rep, nrec, next, cmdVars, tplVars>>

\* Lines 73-75: the underlying transport is invoked; it reads the body.
RecRoundTrip(p, o) ==
    /\ rec[p].pc = "roundTrip"
    /\ rtCalls' = [rtCalls EXCEPT ![p] = @ + 1]
    /\ LET c == [Log(rec[p], "roundTrip") EXCEPT
                   !.sent = <<SentRequest(rec[p])>>,
                   !.bcell[rec[p].req.body] = "",
                   !.got = o.res,
                   !.live = o.res]
       IN rec' = [rec EXCEPT ![p] =
                    IF o.err # "" THEN Return(c, o.res, o.err)
                    ELSE [c EXCEPT !.pc = "filterRes"]]
    /\ hist' = Note(hist, rec'[p])
    /\ UNCHANGED <<dir, files, rep, nrec, next, cmdVars, tplVars>>

\* The response filter run on the response and again on the result.
RecResponseFilterTwice(p) ==
    /\ rec[p].pc = "filterRes"
    /\ rec' = [rec EXCEPT ![p] =
                 IF rec[p].f.res # "nil"
                 THEN [Log(Log(rec[p], "responseFilter"), "responseFilter") EXCEPT
                         !.pc = "dumpRes",
                         !.live = <<ApplyResponseFilter(rec[p].f.res,
                                      ApplyResponseFilter(rec[p].f.res, rec[p].live[1]))>>]
                 ELSE [rec[p] EXCEPT !.pc = "dumpRes"]]
    /\ hist' = Note(hist, rec'[p])
    /\ UNCHANGED <<dir, files, rep, rtCalls, nrec, next, cmdVars, tplVars>>

\* Lines 76-78.
RecResponseFilter(p) ==
    /\ rec[p].pc = "filterRes"
    /\ rec' = [rec EXCEPT ![p] =
                 IF rec[p].f.res # "nil"
                 THEN [Log(rec[p], "responseFilter") EXCEPT
                         !.pc = "dumpRes",
                         !.live = <<ApplyResponseFilter(rec[p].f.res, rec[p].live[1])>>]
                 ELSE [rec[p] EXCEPT !.pc = "dumpRes"]]
    /\ hist' = Note(hist, rec'[p])
    /\ UNCHANGED <<dir, files, rep, rtCalls, nrec, next, cmdVars, tplVars>>

\* Lines 79-83: DumpResponse(res, true) reads the body and puts a copy back.
RecDumpResponse(p) ==
    /\ rec[p].pc = "dumpRes"
    /\ LET c == rec[p]
           r == c.live[1]
       IN rec' = [rec EXCEPT ![p] =
                    IF r.body = Broken
                    THEN Return(c, <<>>, "serialize")
                    ELSE [c EXCEPT !.pc = "openRes",
                                   !.b = DumpResponseBytes(r.status, r.hdr, r.body)]]
    /\ hist' = Note(hist, rec'[p])
    /\ UNCHANGED <<dir, files, rep, rtCalls, nrec, next, cmdVars, tplVars>>

\* Lines 83-86, open.
RecOpenRes(p, io) == OpenStep(p, "openRes", rec[p].resname, "writeRes", io)

\* A call that filters a copy: the caller gets the response as the transport
\* returned it.
RecWriteResUnfiltered(p) ==
    /\ rec[p].pc = "writeRes"
    /\ files' = WriteAt0(files, rec[p].resname, rec[p].b)
    /\ rec' = [rec EXCEPT ![p] = Return(Log(rec[p], "writeRes"), rec[p].got, "")]
    /\ hist' = Note(hist, rec'[p])
    /\ UNCHANGED <<dir, rep, rtCalls, nrec, next, cmdVars, tplVars>>

\* Lines 83-87, write, and the return of the live response.
RecWriteRes(p) ==
    /\ rec[p].pc = "writeRes"
    /\ files' = WriteAt0(files, rec[p].resname, rec[p].b)
    /\ rec' = [rec EXCEPT ![p] = Return(Log(rec[p], "writeRes"), rec[p].live, "")]
    /\ hist' = Note(hist, rec'[p])
    /\ UNCHANGED <<dir, rep, rtCalls, nrec, next, cmdVars, tplVars>>

\* ------------------------------------------------------------------ Replay
ReplayWrap(err) == IF err # "" THEN "problem while replaying transport" ELSE ""

Outcome(res, err) == [res |-> res, err |-> err, wrap |-> ReplayWrap(err)]

\* A lookup that takes a match when there are several.
ReplayFSPickOne(d, fs, path, hdr, body) ==
    IF body = Broken THEN Outcome(<<>>, "serialize")
    ELSE LET name == buildName(DumpRequestBytes(path, hdr, body)).resname
             matches == IF d = "present" THEN Glob(fs, name) ELSE {}
         IN IF Cardinality(matches) = 0 THEN Outcome(<<>>, "notFound")
            ELSE LET m == CHOOSE n \in matches : TRUE IN
                 IF fs[m].isDir THEN Outcome(<<>>, "io")
                 ELSE IF ~ReadResponse(fs[m].data).ok THEN Outcome(<<>>, "serialize")
                 ELSE Outcome(<<[status |-> ReadResponse(fs[m].data).status,
                                 hdr |-> ReadResponse(fs[m].data).hdr,
                                 body |-> ReadResponse(fs[m].data).body]>>, "")

\* The function ReplayFS returns, lines 105-133, on a request whose body
\* reads as body: what it returns from the store fs.
ReplayFS(d, fs, path, hdr, body) ==
    IF body = Broken THEN Outcome(<<>>, "serialize")
    ELSE LET name == buildName(DumpRequestBytes(path, hdr, body)).resname
             matches == IF d = "present" THEN Glob(fs, name) ELSE {}
         IN IF Cardinality(matches) = 0 THEN Outcome(<<>>, "notFound")
            ELSE IF Cardinality(matches) > 1 THEN Outcome(<<>>, "ambiguous")
            ELSE LET m == CHOOSE n \in matches : TRUE IN
                 IF fs[m].isDir THEN Outcome(<<>>, "io")
                 ELSE IF ~ReadResponse(fs[m].data).ok THEN Outcome(<<>>, "serialize")
                 ELSE Outcome(<<[status |-> ReadResponse(fs[m].data).status,
                                 hdr |-> ReadResponse(fs[m].data).hdr,
                                 body |-> ReadResponse(fs[m].data).body]>>, "")

\* A dump that reads the body and does not put it back.
BodyAfterDumpDrained(body) == IF body = Broken THEN body ELSE ""

\* DumpRequest in Replay leaves the request's body readable again.
BodyAfterDump(body) == body

\* One Replay call of the client, on request object r.  The client makes one
\* call at a time: rep holds the call until the client is done with its result.
Replay(r) ==
    /\ \A p \in Procs : rec[p].pc \in {"idle", "done"}
    /\ rep.n = 0
    /\ LET out == ReplayFS(dir, files, r.path, r.hdr, r.body) IN
       rep' = [req |-> [r EXCEPT !.body = BodyAfterDump(r.body)],
               res |-> out.res, err |-> out.err, wrap |-> out.wrap, n |-> 1]
    /\ UNCHANGED <<dir, files, rec, rtCalls, hist, nrec, next, cmdVars, tplVars>>

\* The client is done with the result of its Replay call.
ReplayReturn ==
    /\ rep.n = 1
    /\ rep' = NoReplay
    /\ UNCHANGED <<dir, files, rec, rtCalls, hist, nrec, next, cmdVars, tplVars>>

\* ------------------------------------------------------------- environment
\* Someone organises the fixtures by hand: response fixture m is renamed to
\* carry the descriptive prefix x.
ExternalRename(m, x) ==
    /\ next < MaxExternal
    /\ rep.n = 0
    /\ \A p \in Procs : rec[p].pc \in {"idle", "done"}
    /\ m \in DOMAIN files /\ m.suffix = ".res.txt" /\ m.prefix = ""
    /\ next' = next + 1
    /\ LET n == NameOf(x, m.id, m.suffix) IN
       files' = [k \in (DOMAIN files \ {m}) \cup {n} |->
                   IF k = n THEN files[m] ELSE files[k]]
    /\ UNCHANGED <<dir, rec, rep, rtCalls, hist, nrec, cmdVars, tplVars>>

\* Someone makes a directory whose name ends like response fixture m.
ExternalMkdir(m, x) ==
    /\ next < MaxExternal
    /\ rep.n = 0
    /\ \A p \in Procs : rec[p].pc \in {"idle", "done"}
    /\ m \in DOMAIN files /\ m.suffix = ".res.txt" /\ m.prefix = ""
    /\ next' = next + 1
    /\ files' = (NameOf(x, m.id, m.suffix) :> Directory) @@ files
    /\ UNCHANGED <<dir, rec, rep, rtCalls, hist, nrec, cmdVars, tplVars>>

\* ----------------------------------------------------------- specification
RecordStep(p) ==
    \/ \E r \in Requests, fq \in RequestFilters, fs \in ResponseFilters :
          RecBegin(p, r, [req |-> fq, res |-> fs])
    \/ RecRequestFilter(p)
    \/ RecDumpRequest(p)
    \/ \E io \in BOOLEAN : RecOpenReq(p, io)
    \/ RecWriteReq(p)
    \/ \E o \in RoundTripOutcomes : RecRoundTrip(p, o)
    \/ RecResponseFilter(p)
    \/ RecDumpResponse(p)
    \/ \E io \in BOOLEAN : RecOpenRes(p, io)
    \/ RecWriteRes(p)

ReplayStep == \E r \in Requests : Replay(r)

ExternalStep ==
    \/ \E m \in DOMAIN files, x \in Prefixes : ExternalRename(m, x)
    \/ \E m \in DOMAIN files, x \in Prefixes : ExternalMkdir(m, x)

Next ==
    \/ \E p \in SeqProcs : RecordStep(p)
    \/ ReplayStep
    \/ ReplayReturn
    \/ ExternalStep

Spec == Init /\ [][Next]_vars

\* ------------------------------------------- concurrent calls of one client
\* Two goroutines send the same request through one recording client (an
\* http.RoundTripper is called concurrently); the upstream answers vary.
ConcRequest == [path |-> "/status", hdr |-> {}, body |-> ""]

RecordStepConc(p) ==
    \/ RecBegin(p, ConcRequest, NoFilters)
    \/ RecRequestFilter(p)
    \/ RecDumpRequest(p)
    \/ \E io \in BOOLEAN : RecOpenReq(p, io)
    \/ RecWriteReq(p)
    \/ \E o \in RoundTripOutcomes : RecRoundTrip(p, o)
    \/ RecResponseFilter(p)
    \/ RecDumpResponse(p)
    \/ \E io \in BOOLEAN : RecOpenRes(p, io)
    \/ RecWriteRes(p)

NextConc ==
    \/ \E p \in Procs : RecordStepConc(p)
    \/ Replay(ConcRequest)
    \/ ReplayReturn

SpecConc == Init /\ [][NextConc]_vars

\* ================================================================ cmdline
\* A string is a sequence of one-character strings.
MaxCmdLen == 5
Chars == {"1", "-", "_", "=", " ", "\"", "'"}
FlagNames == {<<>>} \cup {<<a>> : a \in {"1", "-", "_"}}
                 \cup {<<a, b>> : a \in {"1", "-", "_"}, b \in {"-", "_"}}

\* unicode.In(c, unicode.Quotation_Mark) and unicode.IsSpace(c) on Chars.
IsQuote(c) == c \in {"\"", "'"}
IsSpace(c) == c = " "

\* rune(0): no quote is open.
NoQuote == "NUL"

\* A separator test that knows no quotes.
PlainFieldsCheck(lastQuote, c) == [lastQuote |-> lastQuote, sep |-> IsSpace(c)]

\* quotedFieldsCheck of doParse: the closure's answer for rune c and the
\* lastQuote it leaves.
quotedFieldsCheck(lastQuote, c) ==
    IF c = lastQuote THEN [lastQuote |-> NoQuote, sep |-> FALSE]
    ELSE IF lastQuote # NoQuote THEN [lastQuote |-> lastQuote, sep |-> FALSE]
    ELSE IF IsQuote(c) THEN [lastQuote |-> c, sep |-> FALSE]
    ELSE [lastQuote |-> lastQuote, sep |-> IsSpace(c)]

\* strings.FieldsFunc(input, quotedFieldsCheck): the closure is asked about
\* each rune in turn; the runs between separators are the fields.
RECURSIVE FieldsFrom(_, _, _, _, _)
FieldsFrom(input, i, lastQuote, cur, out) ==
    IF i > Len(input) THEN (IF cur = <<>> THEN out ELSE Append(out, cur))
    ELSE LET r == quotedFieldsCheck(lastQuote, input[i]) IN
         IF r.sep
         THEN FieldsFrom(input, i + 1, r.lastQuote, <<>>,
                         IF cur = <<>> THEN out ELSE Append(out, cur))
         ELSE FieldsFrom(input, i + 1, r.lastQuote, Append(cur, input[i]), out)

FieldsFunc(input) == FieldsFrom(input, 1, NoQuote, <<>>, <<>>)

\* strings.Index(flag, "="): 0 stands for -1.
Index(flag) ==
    IF \E i \in 1..Len(flag) : flag[i] = "="
    THEN CHOOSE i \in 1..Len(flag) : flag[i] = "=" /\ \A j \in 1..(i - 1) : flag[j] # "="
    ELSE 0

\* strings.Replace(key, "-", "_", -1).
Canonical(key) == [i \in 1..Len(key) |-> IF key[i] = "-" THEN "_" ELSE key[i]]

\* strings.Trim(value, "\"'").
RECURSIVE Trim(_)
Trim(value) ==
    IF value = <<>> THEN value
    ELSE IF IsQuote(value[1]) THEN Trim(Tail(value))
    ELSE IF IsQuote(value[Len(value)]) THEN Trim(SubSeq(value, 1, Len(value) - 1))
    ELSE value

\* doParse on one flag: what the handler is called with.
KeyOf(flag) == IF Index(flag) = 0 THEN flag ELSE SubSeq(flag, 1, Index(flag) - 1)
ValueOf(flag) ==
    IF Index(flag) = 0 THEN <<"1">> ELSE SubSeq(flag, Index(flag) + 1, Len(flag))
TrimmedValueOf(flag) == Trim(ValueOf(flag))

\* parseToMap: the handler stores under the canonical key, then under the key.
RECURSIVE StoreAll(_, _)
StoreAll(flags, flagMap) ==
    IF flags = <<>> THEN flagMap
    ELSE LET flag == Head(flags)
             m1 == (Canonical(KeyOf(flag)) :> TrimmedValueOf(flag)) @@ flagMap
             m2 == (KeyOf(flag) :> TrimmedValueOf(flag)) @@ m1
         IN StoreAll(Tail(flags), m2)

parseToMap(input) == StoreAll(FieldsFunc(input), <<>>)

\* strings.TrimRight(raw, "\n").
RECURSIVE TrimRight(_)
TrimRight(raw) ==
    IF raw # <<>> /\ raw[Len(raw)] = "\n" THEN TrimRight(SubSeq(raw, 1, Len(raw) - 1))
    ELSE raw

\* A lookup under the name as given.
FlagAsGiven(asMap, flag) ==
    IF flag \in DOMAIN asMap THEN [value |-> asMap[flag], present |-> TRUE]
    ELSE [value |-> <<>>, present |-> FALSE]

\* (c *CmdLine) Flag.
Flag(asMap, flag) ==
    LET canonicalFlag == Canonical(flag) IN
    IF canonicalFlag \in DOMAIN asMap
    THEN [value |-> asMap[canonicalFlag], present |-> TRUE]
    ELSE [value |-> <<>>, present |-> FALSE]

ContainsFlag(asMap, flag) == Flag(asMap, flag).present

\* strings.ToLower, rune by rune.
ToLowerRune(c) ==
    CASE c = "Y" -> "y" [] c = "E" -> "e" [] c = "S" -> "s"
      [] c = "T" -> "t" [] c = "R" -> "r" [] c = "U" -> "u"
      [] OTHER -> c
ToLower(value) == [i \in 1..Len(value) |-> ToLowerRune(value[i])]

\* (c *CmdLine) AsBool.
AsBool(asMap, flag) ==
    LET canonicalFlag == Canonical(flag) IN
    IF canonicalFlag \notin DOMAIN asMap THEN FALSE
    ELSE ToLower(asMap[canonicalFlag]) \in
            {<<"1">>, <<"y", "e", "s">>, <<"t", "r", "u", "e">>}

\* The reader's content grows by one character.
CmdType(c) ==
    /\ cl.pc = "input"
    /\ Len(cl.Raw) < MaxCmdLen
    /\ cl' = [cl EXCEPT !.Raw = Append(@, c)]
    /\ UNCHANGED <<recVars, tplVars>>

\* FromString / New: parse.
CmdParse ==
    /\ cl.pc = "input"
    /\ cl' = [cl EXCEPT !.pc = "parsed",
                        !.Raw = TrimRight(cl.Raw),
                        !.AsMap = parseToMap(TrimRight(cl.Raw))]
    /\ UNCHANGED <<recVars, tplVars>>

\* The caller asks for a flag by the three lookups; they leave the CmdLine
\* as it is, so one flag asked per run shows them all.
CmdLookup(flag) ==
    /\ cl.pc = "parsed"
    /\ cl' = [cl EXCEPT !.pc = "asked",
                        !.flag = flag,
                        !.value = Flag(cl.AsMap, flag).value,
                        !.present = Flag(cl.AsMap, flag).present,
                        !.contains = ContainsFlag(cl.AsMap, flag),
                        !.bool = AsBool(cl.AsMap, flag)]
    /\ UNCHANGED <<recVars, tplVars>>

InitCmd ==
    /\ dir = "absent"
    /\ files = <<>>
    /\ rec = [p \in Procs |-> IdleCall]
    /\ rep = NoReplay
    /\ rtCalls = [p \in Procs |-> 0]
    /\ hist = [last |-> <<>>, allOk |-> TRUE]
    /\ nrec = 0
    /\ next = 0
    /\ cl = [NoCmdLine EXCEPT !.pc = "input"]
    /\ TemplateUnused

NextCmd ==
    \/ \E c \in Chars : CmdType(c)
    \/ CmdParse
    \/ \E flag \in FlagNames : CmdLookup(flag)

SpecCmd == InitCmd /\ [][NextCmd]_vars

\* =============================================================== template
MaxCalls == 3

\* A file of the engine's file system: its template name, whether its path
\* ends with the engine's extension, whether its content parses.
TplFile(name, ext, parses) == [name |-> name, ext |-> ext, parses |-> parses]

\* The file systems tried, each in the lexical order fs.WalkDir visits.
TplFileSystems ==
    {<<TplFile("t", TRUE, TRUE)>>,
     <<TplFile("readme", FALSE, FALSE), TplFile("t", TRUE, TRUE)>>,
     <<TplFile("a", TRUE, FALSE), TplFile("t", TRUE, TRUE)>>}

TemplateNames == {"t"}

InitTpl ==
    /\ dir = "absent"
    /\ files = <<>>
    /\ rec = [p \in Procs |-> IdleCall]
    /\ rep = NoReplay
    /\ rtCalls = [p \in Procs |-> 0]
    /\ hist = [last |-> <<>>, allOk |-> TRUE]
    /\ nrec = 0
    /\ next = 0
    /\ CmdLineUnused
    /\ \E fsys \in TplFileSystems, enabled \in BOOLEAN :
          engine = [NewFileSystem(fsys) EXCEPT !.reload = enabled]
    /\ gor = [g \in Goroutines |-> IdleTask]
    /\ ncalls = 0

\* A goroutine calls Render(out, t, binding), no layout.
TplRender(g, t) ==
    /\ gor[g].pc \in {"idle", "done"}
    /\ ncalls < MaxCalls
    /\ ncalls' = ncalls + 1
    /\ gor' = [gor EXCEPT ![g] = [IdleTask EXCEPT !.pc = "render176", !.op = "Render",
                                                   !.template = t]]
    /\ UNCHANGED <<recVars, cmdVars, engine>>

\* A goroutine calls Load().
TplLoad(g) ==
    /\ gor[g].pc \in {"idle", "done"}
    /\ ncalls < MaxCalls
    /\ ncalls' = ncalls + 1
    /\ gor' = [gor EXCEPT ![g] = [IdleTask EXCEPT !.pc = "load114", !.op = "Load"]]
    /\ UNCHANGED <<recVars, cmdVars, engine>>

\* Line 176: if !e.loaded || e.reload.
RenderCheck(g) ==
    /\ gor[g].pc = "render176"
    /\ gor' = [gor EXCEPT ![g].pc =
                 IF ~engine.loaded \/ engine.reload
                 THEN (IF engine.reload THEN "render178" ELSE "load114")
                 ELSE "render185"]
    /\ UNCHANGED <<recVars, cmdVars, engine, ncalls>>

\* Line 178: e.loaded = false.
RenderUnload(g) ==
    /\ gor[g].pc = "render178"
    /\ engine' = [engine EXCEPT !.loaded = FALSE]
    /\ gor' = [gor EXCEPT ![g].pc = "load114"]
    /\ UNCHANGED <<recVars, cmdVars, ncalls>>

\* Load returns err to its caller: Load's own caller, or Render at line 180.
LoadReturn(task, err) ==
    IF task.op = "Load" \/ err # ""
    THEN [task EXCEPT !.pc = "done", !.err = err, !.locked = FALSE]
    ELSE [task EXCEPT !.pc = "render185", !.locked = FALSE]

\* Lines 114-116: if e.loaded { return nil }, read without the lock.
LoadCheck(g) ==
    /\ gor[g].pc = "load114"
    /\ gor' = [gor EXCEPT ![g] =
                 IF engine.loaded THEN LoadReturn(gor[g], "")
                 ELSE [gor[g] EXCEPT !.pc = "load118"]]
    /\ UNCHANGED <<recVars, cmdVars, engine, ncalls>>

\* Lines 118-119: e.mutex.Lock(), unlock deferred.
LoadLock(g) ==
    /\ gor[g].pc = "load118"
    /\ engine.mutex = 0
    /\ engine' = [engine EXCEPT !.mutex = g]
    /\ gor' = [gor EXCEPT ![g].pc = "load120", ![g].locked = TRUE]
    /\ UNCHANGED <<recVars, cmdVars, ncalls>>

\* Lines 120-124: e.Templates = template.New(e.directory), an empty set.
LoadNew(g) ==
    /\ gor[g].pc = "load120"
    /\ engine' = [engine EXCEPT !.Templates = <<{}>>]
    /\ gor' = [gor EXCEPT ![g].pc = "load170"]
    /\ UNCHANGED <<recVars, cmdVars, ncalls>>

\* Line 170: e.loaded = true, before the walk.
LoadMark(g) ==
    /\ gor[g].pc = "load170"
    /\ engine' = [engine EXCEPT !.loaded = TRUE]
    /\ gor' = [gor EXCEPT ![g].pc = "load171", ![g].i = 1]
    /\ UNCHANGED <<recVars, cmdVars, ncalls>>

\* Lines 171, 126-168: fs.WalkDir calls walkFn on the next file, or ends;
\* Load returns what the walk returns and the deferred Unlock runs.
LoadWalk(g) ==
    /\ gor[g].pc = "load171"
    /\ LET i == gor[g].i
           fsys == engine.fileSystem
       IN IF i > Len(fsys)
          THEN /\ engine' = [engine EXCEPT !.mutex = 0]
               /\ gor' = [gor EXCEPT ![g] = LoadReturn([gor[g] EXCEPT !.parsed = TRUE], "")]
          ELSE IF ~fsys[i].ext
          THEN /\ gor' = [gor EXCEPT ![g].i = i + 1]
               /\ UNCHANGED engine
          ELSE IF fsys[i].parses
          THEN /\ engine' = [engine EXCEPT !.Templates = <<@[1] \cup {fsys[i].name}>>]
               /\ gor' = [gor EXCEPT ![g].i = i + 1]
          ELSE /\ engine' = [engine EXCEPT !.mutex = 0]
               /\ gor' = [gor EXCEPT ![g] = LoadReturn(gor[g], "parse")]
    /\ UNCHANGED <<recVars, cmdVars, ncalls>>

\* Lines 185-188, 203: e.Templates.Lookup(template), without the lock; a
\* template found is executed.
RenderLookup(g) ==
    /\ gor[g].pc = "render185"
    /\ gor' = [gor EXCEPT ![g] =
                 [gor[g] EXCEPT
                    !.pc = "done",
                    !.during = engine.mutex,
                    !.err = IF engine.Templates = <<>> THEN "nil pointer"
                            ELSE IF gor[g].template \in engine.Templates[1] THEN ""
                            ELSE "does not exist"]]
    /\ UNCHANGED <<recVars, cmdVars, engine, ncalls>>

TplStep(g) ==
    \/ \E t \in TemplateNames : TplRender(g, t)
    \/ TplLoad(g)
    \/ RenderCheck(g)
    \/ RenderUnload(g)
    \/ LoadCheck(g)
    \/ LoadLock(g)
    \/ LoadNew(g)
    \/ LoadMark(g)
    \/ LoadWalk(g)
    \/ RenderLookup(g)

NextTpl == \E g \in Goroutines : TplStep(g)

SpecTpl == InitTpl /\ [][NextTpl]_vars

\* =================================================================== claims
Quiet == \A p \in Procs : rec[p].pc \in {"idle", "done"}
Succeeded(c) == c.pc = "done" /\ c.err = ""
RecordingError == "problem while recording transport"

\* The name "<fingerprint>.res.txt" of a request, and the names of the store
\* that end with it.
Fingerprint(r) == buildName(DumpRequestBytes(r.path, r.hdr, r.body)).resname
EndingWith(name) == {n \in DOMAIN files : n.id = name.id /\ n.suffix = name.suffix}
ResFixtures(fs) == {<<n, fs[n]>> : n \in {m \in DOMAIN fs : m.suffix = ".res.txt"}}
Replayed == rep.n = 1
ReplayCalled == rep.n = 0 /\ rep'.n = 1

\* C1 as stated: after a successful Record call for request R, with any
\* filters, a Replay call for the same request R returns without error the
\* response that was recorded.
C1_RoundTripAnyFilter ==
    \A p \in Procs :
        (Succeeded(rec[p]) /\ Replayed /\ rep.req = rec[p].orig)
            => (rep.err = "" /\ rep.res = rec[p].res)

\* C1 amended: after a successful Record call, a Replay call for a request
\* whose bytes equal the request as it was dumped after the request filter
\* (R itself when the filter leaves R's bytes alone), against a store in which
\* the written response fixture is the only name ending with the
\* fingerprint's ".res.txt", returns without error a response with the status,
\* headers and body of the response that was recorded.
C1_RoundTrip ==
    \A p \in Procs :
        (/\ Succeeded(rec[p]) /\ Replayed /\ rep.req.body # Broken
         /\ DumpRequestBytes(rep.req.path, rep.req.hdr, rep.req.body) = rec[p].reqb
         /\ EndingWith(rec[p].resname) = {rec[p].resname})
            => (rep.err = "" /\ rep.res = rec[p].res)

C1_Witness ==
    \E p \in Procs :
        /\ Succeeded(rec[p]) /\ Replayed
        /\ rec[p].f = [req |-> "delAuthorization", res |-> "delToken"]
        /\ rec[p].orig.hdr = {"Authorization"} /\ rec[p].orig.body = "x"
        /\ DumpRequestBytes(rep.req.path, rep.req.hdr, rep.req.body) = rec[p].reqb
        /\ rep.err = "" /\ rep.res = rec[p].res /\ rep.res[1].body = "ok"

\* C2: a Replay call for a request (one that can be dumped) whose
\* "<fingerprint>.res.txt" ends more than one name of the store returns the
\* ambiguous-match error and no response.
C2_Ambiguous ==
    (Replayed /\ rep.req.body # Broken /\ Cardinality(EndingWith(Fingerprint(rep.req))) > 1)
        => (rep.err = "ambiguous" /\ rep.res = <<>>)

C2_Witness ==
    /\ Replayed /\ rep.err = "ambiguous"
    /\ \E m, n \in EndingWith(Fingerprint(rep.req)) :
          m.prefix # n.prefix /\ ~files[m].isDir /\ ~files[n].isDir

\* C3: a Replay call returns the not-found error, and no response, exactly
\* when the request can be dumped and no name of the store ends with its
\* "<fingerprint>.res.txt"; every other failure carries another error kind.
C3_NotFound ==
    Replayed =>
        /\ (rep.req.body # Broken /\ EndingWith(Fingerprint(rep.req)) = {})
              <=> rep.err = "notFound"
        /\ rep.err = "notFound" => rep.res = <<>>

C3_Witness ==
    /\ Replayed /\ rep.err = "notFound"
    /\ \E n \in DOMAIN files : n.id = Fingerprint(rep.req).id /\ n.suffix = ".req.txt"

\* C4: with a request filter that deletes Authorization, the request fixture
\* in the store has no Authorization header and the request the transport
\* was handed has the headers the caller supplied.
C4_HeaderIsolation ==
    \A p \in Procs :
        (rec[p].f.req = "delAuthorization" /\ rec[p].sent # <<>>)
            => /\ rec[p].sent[1].hdr = rec[p].orig.hdr
               /\ rec[p].reqname \in DOMAIN files
               /\ "Authorization" \notin RequestFixtureHeaders(files[rec[p].reqname].data)

C4_Witness ==
    \E p \in Procs :
        /\ rec[p].f.req = "delAuthorization" /\ rec[p].sent # <<>>
        /\ "Authorization" \in rec[p].sent[1].hdr
        /\ "Authorization" \notin RequestFixtureHeaders(files[rec[p].reqname].data)

\* C5: whatever the request filter does to the clone, the body the transport
\* is handed is the caller's original body.
C5_OriginalBody ==
    \A p \in Procs :
        rec[p].sent # <<>> => rec[p].sent[1].body = rec[p].orig.body

\* C6: after Record calls that all succeeded, into a store that started
\* empty and that nobody else touched, the store holds exactly one ".req.txt"
\* and one ".res.txt" per identifier recorded, with the bytes of the exchange
\* recorded last under that identifier.
C6_OnePairLastWins ==
    (hist.allOk /\ next = 0 /\ Quiet) =>
        /\ \A n \in DOMAIN files :
              n.id \in DOMAIN hist.last /\ n.suffix \in {".req.txt", ".res.txt"}
        /\ \A id \in DOMAIN hist.last :
              /\ Cardinality({n \in DOMAIN files : n.id = id /\ n.suffix = ".req.txt"}) = 1
              /\ Cardinality({n \in DOMAIN files : n.id = id /\ n.suffix = ".res.txt"}) = 1
              /\ files[NameOf("", id, ".req.txt")].data = hist.last[id].req
              /\ files[NameOf("", id, ".res.txt")].data = hist.last[id].res

C6_Witness ==
    /\ hist.allOk /\ next = 0 /\ Quiet /\ nrec = 2
    /\ Cardinality(DOMAIN files) = 2
    /\ \E id \in DOMAIN hist.last :
          /\ hist.last[id].n = 2
          /\ rec[1].files0[NameOf("", id, ".res.txt")].data # hist.last[id].res
          /\ rec[1].files0[NameOf("", id, ".req.txt")].data = hist.last[id].req

\* C7: a Record call whose transport returns an error returns that error
\* wrapped and no response, has invoked the transport once, has written the
\* request fixture, and leaves every response fixture as it was when the call
\* began.
C7_TransportFailure ==
    [][\A p \in Procs :
          (rec[p].pc = "roundTrip" /\ rec'[p].pc = "done" /\ rec'[p].err # "")
              => /\ rec'[p].err = "transport" /\ rec'[p].wrap = RecordingError
                 /\ rec'[p].res = <<>>
                 /\ rtCalls'[p] = 1
                 /\ rec'[p].reqname \in DOMAIN files'
                 /\ files'[rec'[p].reqname].data = rec'[p].reqb
                 /\ ResFixtures(files') = ResFixtures(rec'[p].files0)]_vars

C7_Witness ==
    \E p \in Procs :
        /\ rec[p].pc = "done" /\ rec[p].err = "transport" /\ rtCalls[p] = 1
        /\ rec[p].resname \in DOMAIN rec[p].files0
        /\ files[rec[p].resname] = rec[p].files0[rec[p].resname]
        /\ files[rec[p].reqname].data = rec[p].reqb

Aborted(c, err) ==
    c.pc = "done" /\ c.err = err /\ c.res = <<>> /\ c.wrap = RecordingError

C9_ReplayReadOnly ==
    [][ReplayCalled =>
          /\ files' = files /\ dir' = dir
          /\ rtCalls' = rtCalls /\ rec' = rec
          /\ LET again == ReplayFS(dir', files', rep'.req.path, rep'.req.hdr, rep'.req.body)
             IN again.res = rep'.res /\ again.err = rep'.err]_vars

C9_Witness ==
    /\ Replayed /\ rep.err = "" /\ rep.req.body = "x"
    /\ rep.res = <<[status |-> "200", hdr |-> {}, body |-> "ok"]>>

Count(t, e) == Cardinality({i \in 1..Len(t) : t[i] = e})

\* C10: in one Record call each filter is invoked at most once, the response
\* filter only after the transport returned a response and before the
\* response fixture is opened or written; a Replay call invokes no filter.
C10_FilterDiscipline ==
    [][(\A p \in Procs :
             LET t == rec'[p].trace IN
             /\ Count(t, "requestFilter") <= 1
             /\ Count(t, "responseFilter") <= 1
             /\ \A i \in 1..Len(t) :
                   t[i] = "responseFilter" =>
                      /\ \E j \in 1..(i - 1) : t[j] = "roundTrip"
                      /\ rec'[p].live # <<>> /\ rec'[p].err # "transport"
                      /\ \A j \in 1..(i - 1) : t[j] \notin {"openRes", "writeRes"})
       /\ (ReplayCalled => \A q \in Procs : rec'[q].trace = rec[q].trace)]_vars

C10_Witness ==
    \E p \in Procs :
        /\ Succeeded(rec[p])
        /\ rec[p].trace = <<"mkdir", "requestFilter", "openReq", "writeReq", "roundTrip",
                            "responseFilter", "openRes", "writeRes">>

\* C11: in a successful Record call with a response filter the filter acts on
\* the live response: what the caller gets back is the filtered response, the
\* response fixture is its serialization, and reading the fixture back gives
\* the caller's status and headers.
C11_FilterInPlace ==
    \A p \in Procs :
        LET c == rec[p] IN
        (Succeeded(c) /\ c.f.res # "nil") =>
            /\ c.res = <<ApplyResponseFilter(c.f.res, c.got[1])>>
            /\ c.b = DumpResponseBytes(c.res[1].status, c.res[1].hdr, c.res[1].body)
            /\ c.resname \in DOMAIN files =>
                  LET back == ReadResponse(files[c.resname].data) IN
                  /\ files[c.resname].data = c.b
                  /\ back.ok
                  /\ back.status = c.res[1].status
                  /\ back.hdr = c.res[1].hdr

C11_Witness ==
    \E p \in Procs :
        /\ Succeeded(rec[p]) /\ rec[p].f.res = "delToken"
        /\ "Token" \in rec[p].got[1].hdr
        /\ "Token" \notin rec[p].res[1].hdr
        /\ rec[p].resname \in DOMAIN files
        /\ "Token" \notin ReadResponse(files[rec[p].resname].data).hdr

\* C12: the request and the response fixture of a call carry one identifier,
\* that of the bytes the filtered clone serializes to, and differ only in the
\* suffix ".req.txt" / ".res.txt"; a call whose filtered clone serializes to
\* the bytes of an earlier recorded exchange uses that exchange's pair of names.
C12_SharedFingerprint ==
    \A p \in Procs :
        LET c == rec[p] IN
        c.reqb # <<>> =>
            /\ c.reqname = NameOf("", HashBytes(c.reqb), ".req.txt")
            /\ c.resname = NameOf("", HashBytes(c.reqb), ".res.txt")
            /\ c.pc \in {"openReq", "writeReq", "roundTrip"} =>
                  c.reqb = DumpRequestBytes(c.dumpReq.path, c.hcell[c.dumpReq.hdr],
                                            c.bcell[c.dumpReq.body])
            /\ \A id \in DOMAIN hist.last :
                  c.reqb = hist.last[id].req =>
                     /\ c.reqname = NameOf("", id, ".req.txt")
                     /\ c.resname = NameOf("", id, ".res.txt")

\* The second call differs from the recorded one before the filter only.
C12_Witness ==
    \E p \in Procs :
        LET c == rec[p] IN
        /\ Succeeded(c) /\ c.f.req = "delAuthorization"
        /\ c.orig.hdr = {"Authorization"}
        /\ DumpRequestBytes(c.orig.path, c.orig.hdr, c.orig.body) # c.reqb
        /\ c.reqname \in DOMAIN c.files0
        /\ c.files0[c.reqname].data = c.reqb
        /\ c.resname.id \in DOMAIN hist.last
        /\ hist.last[c.resname.id].n = 2

\* C18: while nothing but Record has written to the store, no two entries end
\* with the same "<id>.res.txt", so no Replay is ambiguous: it finds exactly
\* one response fixture for its request or reports not-found.
C18_NeverAmbiguous ==
    next = 0 =>
        /\ \A n \in DOMAIN files :
              Cardinality({m \in DOMAIN files : m.id = n.id /\ m.suffix = n.suffix}) = 1
        /\ Replayed =>
              /\ rep.err # "ambiguous"
              /\ rep.req.body # Broken =>
                    \/ rep.err = "notFound"
                    \/ Cardinality(EndingWith(Fingerprint(rep.req))) = 1

C18_Witness ==
    /\ next = 0 /\ nrec = 2 /\ Replayed /\ rep.err = ""
    /\ \E id \in DOMAIN hist.last : hist.last[id].n = 2
    /\ Cardinality(EndingWith(Fingerprint(rep.req))) = 1

Before(t, a, b) == \A i \in 1..Len(t) : t[i] = b => \E j \in 1..(i - 1) : t[j] = a

\* C19: a Record call writes its request fixture before it invokes the
\* transport and touches its response fixture only after the transport
\* returned; and while nothing but Record has written to the store every
\* "<id>.res.txt" in it has its "<id>.req.txt".
C19_RequestFirst ==
    /\ \A p \in Procs :
          LET c == rec[p] IN
          /\ Before(c.trace, "writeReq", "roundTrip")
          /\ Before(c.trace, "roundTrip", "openRes")
          /\ Before(c.trace, "roundTrip", "writeRes")
          /\ c.pc = "roundTrip" =>
                /\ c.reqname \in DOMAIN files /\ files[c.reqname].data = c.reqb
                /\ c.resname \in DOMAIN files <=> c.resname \in DOMAIN c.files0
                /\ c.resname \in DOMAIN files => files[c.resname] = c.files0[c.resname]
    /\ next = 0 =>
          \A n \in DOMAIN files :
              n.suffix = ".res.txt" => NameOf(n.prefix, n.id, ".req.txt") \in DOMAIN files

\* A recorded pair, and a request fixture left alone by a transport failure.
C19_Witness ==
    /\ next = 0
    /\ \E p \in Procs : rec[p].pc = "done" /\ rec[p].err = "transport"
    /\ \E n \in DOMAIN files :
          n.suffix = ".res.txt" /\ NameOf(n.prefix, n.id, ".req.txt") \in DOMAIN files
    /\ \E n \in DOMAIN files :
          n.suffix = ".req.txt" /\ NameOf(n.prefix, n.id, ".res.txt") \notin DOMAIN files

\* C15: when two concurrent Record calls for one fingerprint got different
\* responses and both returned without error, the store holds one pair for
\* the fingerprint and the response fixture is the serialized response of
\* one of the two calls.
C15_NoMixture ==
    (/\ Quiet /\ Succeeded(rec[1]) /\ Succeeded(rec[2])
     /\ rec[1].resname = rec[2].resname /\ rec[1].b # rec[2].b) =>
        /\ Cardinality(EndingWith(rec[1].resname)) = 1
        /\ Cardinality(EndingWith(rec[1].reqname)) = 1
        /\ files[rec[1].resname].data \in {rec[1].b, rec[2].b}

\* Two names are spellings of one flag: they differ by "-" / "_" only.
SameFlag(a, b) ==
    /\ Len(a) = Len(b)
    /\ \A i \in 1..Len(a) : a[i] = b[i] \/ {a[i], b[i]} = {"-", "_"}

\* The places in the parsed command line where a flag is given under some
\* spelling of name.
Occurrences(name) ==
    {i \in 1..Len(FieldsFunc(cl.Raw)) : SameFlag(KeyOf(FieldsFunc(cl.Raw)[i]), name)}

Last(S) == CHOOSE i \in S : \A j \in S : j <= i

Truthy == {<<"1">>, <<"y", "e", "s">>, <<"t", "r", "u", "e">>}

\* What the three lookups have to say about name.
Expected(name) ==
    IF Occurrences(name) = {}
    THEN [value |-> <<>>, present |-> FALSE, bool |-> FALSE]
    ELSE LET v == TrimmedValueOf(FieldsFunc(cl.Raw)[Last(Occurrences(name))])
         IN [value |-> v, present |-> TRUE, bool |-> ToLower(v) \in Truthy]

\* C13: Flag, ContainsFlag and AsBool answer for a name what the last flag of
\* the command line given under any "-" / "_" spelling of that name says,
\* the same for every spelling, and report a name that spells no parsed flag
\* absent.
C13_DashUnderscore ==
    /\ cl.pc = "asked" =>
          /\ cl.value = Expected(cl.flag).value
          /\ cl.present = Expected(cl.flag).present
          /\ cl.contains = Expected(cl.flag).present
          /\ cl.bool = Expected(cl.flag).bool
    /\ cl.pc = "parsed" =>
          \A a \in FlagNames, b \in FlagNames :
              SameFlag(a, b) =>
                 /\ Flag(cl.AsMap, a) = Flag(cl.AsMap, b)
                 /\ ContainsFlag(cl.AsMap, a) = ContainsFlag(cl.AsMap, b)
                 /\ AsBool(cl.AsMap, a) = AsBool(cl.AsMap, b)

\* "-=- _" asked for "-": the later flag, spelled "_", decides.
C13_Witness ==
    /\ cl.pc = "asked" /\ cl.flag = <<"-">>
    /\ Len(FieldsFunc(cl.Raw)) = 2
    /\ KeyOf(FieldsFunc(cl.Raw)[1]) = <<"-">> /\ KeyOf(FieldsFunc(cl.Raw)[2]) = <<"_">>
    /\ TrimmedValueOf(FieldsFunc(cl.Raw)[1]) = <<"-">>
    /\ cl.present /\ cl.contains /\ cl.bool /\ cl.value = <<"1">>

\* The characters of s outside every quoted stretch, from position i on: a
\* quotation mark opens a stretch that runs to the next mark of its kind.
CloseOf(s, i) ==
    IF \E j \in (i + 1)..Len(s) : s[j] = s[i]
    THEN CHOOSE j \in (i + 1)..Len(s) :
             s[j] = s[i] /\ \A k \in (i + 1)..(j - 1) : s[k] # s[i]
    ELSE Len(s)

RECURSIVE TopLevel(_, _)
TopLevel(s, i) ==
    IF i > Len(s) THEN {}
    ELSE IF IsQuote(s[i]) THEN TopLevel(s, CloseOf(s, i) + 1)
    ELSE {i} \cup TopLevel(s, i + 1)

\* The top-level flags of s, as <<first, last>> positions: the stretches
\* between the white space outside quotes.
Separators(s) == {i \in TopLevel(s, 1) : IsSpace(s[i])}
TopFlags(s) ==
    {<<a, b>> \in (1..Len(s)) \X (1..Len(s)) :
        /\ a <= b
        /\ \A i \in a..b : i \notin Separators(s)
        /\ a = 1 \/ (a - 1) \in Separators(s)
        /\ b = Len(s) \/ (b + 1) \in Separators(s)}
Text(s, f) == SubSeq(s, f[1], f[2])

\* Of the top-level flags that store under map key k, the last.
Storing(s, k) ==
    {f \in TopFlags(s) : KeyOf(Text(s, f)) = k \/ Canonical(KeyOf(Text(s, f))) = k}
LastStoring(s, k) == CHOOSE f \in Storing(s, k) : \A g \in Storing(s, k) : g[1] <= f[1]

\* C14: AsMap has exactly the raw and the canonical key of each top-level
\* flag, white space inside quotes starting none; each entry is the trimmed
\* value of the last top-level flag stored under it, "1" for a flag that
\* has no "=".
C14_QuotedValues ==
    cl.pc = "parsed" =>
        /\ DOMAIN cl.AsMap =
              UNION {{KeyOf(Text(cl.Raw, f)), Canonical(KeyOf(Text(cl.Raw, f)))} :
                        f \in TopFlags(cl.Raw)}
        /\ \A k \in DOMAIN cl.AsMap :
              LET flag == Text(cl.Raw, LastStoring(cl.Raw, k)) IN
              cl.AsMap[k] =
                 IF \E i \in 1..Len(flag) : flag[i] = "="
                 THEN Trim(SubSeq(flag, Index(flag) + 1, Len(flag)))
                 ELSE <<"1">>

\* The command line _=" - : white space inside a quoted value, one flag.
C14_Witness ==
    /\ cl.pc = "parsed"
    /\ cl.Raw = <<"_", "=", "\"", " ", "-">>
    /\ DOMAIN cl.AsMap = {<<"_">>}
    /\ cl.AsMap[<<"_">>] = <<" ", "-">>

\* The templates a complete Load gives the engine.
AllTemplates == {engine.fileSystem[i].name : i \in {j \in 1..Len(engine.fileSystem) :
                                                       engine.fileSystem[j].ext}}
AllParse == \A i \in 1..Len(engine.fileSystem) :
                engine.fileSystem[i].ext => engine.fileSystem[i].parses

\* C16: with every template of the file system parseable and goroutines that
\* call Render only, a Render of template t that has returned found t, and did not look it up while another
\* goroutine's Load held the lock on the set.
C16_RaceSafe ==
    \A g \in Goroutines :
        (/\ AllParse
         /\ \A h \in Goroutines : gor[h].op \in {"", "Render"}
         /\ gor[g].pc = "done" /\ gor[g].op = "Render"
         /\ gor[g].template \in AllTemplates) =>
            /\ gor[g].err = ""
            /\ gor[g].during = 0

\* C17: when no call is in flight, a loaded engine holds every template of
\* its file system, and an engine whose last Load returned an error is not
\* loaded.
C17_LoadedMeaning ==
    (\A g \in Goroutines : gor[g].pc \in {"idle", "done"}) =>
        /\ engine.loaded => (engine.Templates # <<>> /\ AllTemplates \subseteq engine.Templates[1])
        /\ (\E g \in Goroutines : gor[g].pc = "done" /\ gor[g].err = "parse") => ~engine.loaded

====
